---- MODULE Spec2Model ----
(***************************************************************************)
(* Session/connection manager of telegram_mcp: getClient (telegram.js),    *)
(* its pool clientSessions, the session record files, the configuration    *)
(* module and the remote backend as seen through client.connect,           *)
(* client.isUserAuthorized and client.start.                               *)
(*                                                                         *)
(* getClient is an async function: one action of the model is one          *)
(* synchronous run of its code between two awaits.                         *)
(*                                                                         *)
(* Around it: the entry points (mcp-server.js, src/mcp-server.js,          *)
(* src/index.js), the startup check checkSessionsOnStartup and the         *)
(* handlers that dispatch a command to a session operation.                *)
(*                                                                         *)
(* Spec         : the getClient calls of a serving process, two at a time. *)
(* StartupSpec  : one process from its start until it is ready.            *)
(* DispatchSpec : a ready process handling one command.                    *)
(***************************************************************************)
EXTENDS Integers, FiniteSets, Sequences, TLC

\* ---------------------------------------------------------------- bounds
\* number of PHONE_CODE_INVALID replies the backend gives to one call
MaxInvalidCodes == 1

SessionIds == {"+1000", "+2000"}
\* `${undefined}`: the identifier getClient derives from a missing argument
Undefined == "undefined"
\* the keys of the sessions directory, of the pool and of the backend
StoreKeys == SessionIds \cup {Undefined}
\* the getClient invocations of one run of the process, by order of entry
Calls == {1, 2}
\* token 0: the token of a record that exists when the process starts;
\* token c: the token client.session.save() yields after the login of call c
Tokens == {0} \cup Calls
\* clients are identified by the call that constructed them; 0 is no client
NoHandle == 0

VARIABLES
  env,      \* process.env: is API_ID / API_HASH set
  config,   \* the exported config object: apiId, apiHash
  files,    \* sessionsDir: sessionId -> content of <sessionId>.json
  accepts,  \* remote backend: sessionId -> the tokens it holds authorized
  pool,     \* clientSessions: sessionId -> client (NoHandle: no entry)
  call,     \* one record per getClient invocation: its locals and position
  server,   \* the process: its entry point and how far its startup has come
  request   \* the command being dispatched and the response it got

vars == <<env, config, files, accepts, pool, call, server, request>>

\* ------------------------------------------------------- session records
Absent == [kind |-> "absent", token |-> 0]
\* content JSON.parse throws on
Garbage == [kind |-> "garbage", token |-> 0]
\* parsable JSON whose session field is missing or empty
NoSessionField == [kind |-> "nosession", token |-> 0]
Record(t) == [kind |-> "valid", token |-> t]

\* ---------------------------------------------------------- configuration
\* src/config.js without defaults: parseInt(API_ID) || 0, API_HASH || ''
PlainConfig(e) ==
  [apiId |-> IF e.apiId THEN "env" ELSE "none",
   apiHash |-> IF e.apiHash THEN "env" ELSE "none"]

\* config.js with defaults: dummy values when the directory holds a .json file
DefaultsConfig(e, fs) ==
  LET hasExistingSessions == \E s \in SessionIds : fs[s].kind # "absent"
  IN [apiId |-> IF e.apiId THEN "env"
                ELSE IF hasExistingSessions THEN "dummy" ELSE "none",
      apiHash |-> IF e.apiHash THEN "env"
                  ELSE IF hasExistingSessions THEN "dummy" ELSE "none"]

\* !config.apiId || !config.apiHash
ConfigMissing(cfg) == cfg.apiId = "none" \/ cfg.apiHash = "none"

\* ------------------------------------------------------ getClient helpers
\* !forceNew && clientSessions.has(sessionId)
PoolHitAnySession(forceNew, p, id) == ~forceNew /\ \E s \in DOMAIN p : p[s] # NoHandle
PoolHit(forceNew, p, id) == ~forceNew /\ p[id] # NoHandle

\* existsSync + JSON.parse + sessionData.session truthy
ExistingSessionNever(f) == FALSE
ExistingSession(f) == f.kind = "valid"

\* the guard of the throw 'Your API ID or Hash cannot be empty ...'
NewSessionNeedsCredentials(existing, cfg) == ~existing /\ ConfigMissing(cfg)

\* the credentials the client object is constructed with
ClientCredentialsOfConfig(existing, cfg) == cfg
ClientCredentials(existing, cfg) ==
  IF existing
    THEN [apiId |-> "placeholder", apiHash |-> "placeholder"]
    ELSE cfg

\* the client was constructed with the API_ID and API_HASH of the environment
RealCredentials(cl) == cl.apiId = "env" /\ cl.apiHash = "env"

\* let maxAttempts = 3
maxAttempts == 3

\* while (!authorized && attempts < maxAttempts)
LoopContinuesOffByOne(authorized, attempts) == ~authorized /\ attempts <= maxAttempts
LoopContinues(authorized, attempts) == ~authorized /\ attempts < maxAttempts

\* catch branch PASSWORD_HASH_INVALID: the counter is left as it is
AfterInvalidPassword(attempts) == attempts

\* catch branch PHONE_CODE_INVALID: attempts--
AfterInvalidCodeKeeps(attempts) == attempts
AfterInvalidCode(attempts) == attempts - 1

\* the resumption branch ends the call once isUserAuthorized() is true
ResumeReturnsNever(isAuthorized) == FALSE
ResumeReturns(isAuthorized) == isAuthorized

\* JSON.stringify({ session: client.session.save(), timestamp: Date.now() })
SavedRecordWithoutSession(t) == NoSessionField
SavedRecord(t) == Record(t)

\* client.isUserAuthorized(): the backend holds the client's token authorized
HandleAuthenticated(h) ==
  /\ h # NoHandle
  /\ call[h].token \in accepts[call[h].sid]

\* ------------------------------------------------------------------ state
\* sid: the argument; existing, client, token, authorized, attempts: the
\* locals existingSession, client (the credentials it was constructed with
\* and the token of its session), authorized, attempts; result, error: how
\* the call ended.
\* History of the call, kept for the properties: bypassed (forceNew made it
\* skip a pool entry), starts, started (client.start invocations), prompted
\* (input.text was called), badPasswords, badCodes (rejections by the
\* backend), writes (writeFileSync calls that changed the file).
IdleCall ==
  [pc |-> "idle", sid |-> "+1000", bypassed |-> FALSE,
   existing |-> FALSE, client |-> [apiId |-> "none", apiHash |-> "none"],
   token |-> 0, authorized |-> FALSE, attempts |-> 0,
   starts |-> 0, started |-> FALSE, prompted |-> FALSE,
   badPasswords |-> 0, badCodes |-> 0, writes |-> 0,
   result |-> NoHandle, error |-> "none"]

\* the sessions directory, the backend and the pool when the process starts
InitStore ==
  /\ env \in [apiId : BOOLEAN, apiHash : BOOLEAN]
  /\ files \in [StoreKeys -> {Absent, Garbage, NoSessionField, Record(0)}]
  /\ files[Undefined] = Absent
  /\ config \in {PlainConfig(env), DefaultsConfig(env, files)}
  /\ accepts \in [StoreKeys -> {{}, {0}}]
  /\ \A s \in StoreKeys : files[s].kind # "valid" => accepts[s] = {}
  /\ pool = [s \in StoreKeys |-> NoHandle]
  /\ call = [c \in Calls |-> IdleCall]

\* a process whose startup is over: validSessions is a local of the check
Serving(entry) ==
  [entry |-> entry, phase |-> "ready", validSessions |-> <<>>,
   reconciled |-> entry # "src/index.js"]

NoRequest ==
  [stage |-> "none", path |-> "rest",
   input |-> [body |-> "none", name |-> "bogus", parameters |-> FALSE,
              session |-> "absent", chatId |-> "absent", message |-> "absent",
              method |-> "absent", limit |-> "absent"],
   validated |-> FALSE, slot |-> NoHandle, remote |-> FALSE, failed |-> FALSE,
   limit |-> "none", response |-> [kind |-> "none", isError |-> FALSE,
                                   payloadError |-> FALSE]]

Init ==
  /\ InitStore
  /\ server = Serving("src/index.js")
  /\ request = NoRequest

InFlight(c) == call[c].pc \notin {"idle", "done"}

\* the call ends: the loop's locals and their counters are gone
Ended(r) ==
  [r EXCEPT !.pc = "done", !.attempts = 0, !.starts = 0, !.badCodes = 0]

\* the call ends by throwing
Throw(r, kind) == [Ended(r) EXCEPT !.error = kind]

\* the call ends by returning client h
Return(r, h) == [Ended(r) EXCEPT !.result = h]

\* the head of the login loop and, when it is entered, attempts++ and the
\* invocation of client.start; otherwise the throw after the loop
LoginLoop(r) ==
  IF LoopContinues(r.authorized, r.attempts)
    THEN [r EXCEPT !.pc = "start", !.attempts = r.attempts + 1,
                   !.starts = r.starts + 1, !.started = TRUE]
    ELSE Throw(r, "exhausted")

\* clientSessions.set(sessionId, client)
PoolReplacedBy(p, id, h) == [s \in DOMAIN p |-> IF s = id THEN h ELSE NoHandle]
PoolWith(p, id, h) == [p EXCEPT ![id] = h]

\* the pool after client.start resolved: clientSessions.set comes after
\* writeFileSync in the try block, a write that throws skips it
PoolAfterLoginAlways(p, id, h, written) == PoolWith(p, id, h)
PoolAfterLogin(p, id, h, written) ==
  IF written = "ok" THEN PoolWith(p, id, h) ELSE p

\* the last branch of the catch block: throw error
AfterOtherError(r) == Throw(r, "login_error")

\* ---------------------------------------------------------------- actions
\* getClient(sessionId, forceNew) up to its first await
GetClientEntry(c, id, forceNew) ==
  LET r0 == [call[c] EXCEPT !.sid = id,
                            !.bypassed = forceNew /\ pool[id] # NoHandle]
      existingSession == ExistingSession(files[id])
      r1 == [r0 EXCEPT !.existing = existingSession,
                       !.token = IF existingSession THEN files[id].token ELSE 0,
                       !.client = ClientCredentials(existingSession, config)]
  IN IF PoolHit(forceNew, pool, id)
       THEN Return(r0, pool[id])
     ELSE IF NewSessionNeedsCredentials(existingSession, config)
       THEN Throw([r0 EXCEPT !.existing = existingSession], "missing_credentials")
     ELSE IF existingSession
       THEN [r1 EXCEPT !.pc = "connect"]
     ELSE LoginLoop(r1)

\* a getClient invocation by a caller that is not modelled further
GetClient(c, id, forceNew) ==
  /\ call[c].pc = "idle"
  /\ \A d \in Calls : d < c => call[d].pc # "idle"
  /\ call' = [call EXCEPT ![c] = GetClientEntry(c, id, forceNew)]
  /\ UNCHANGED <<server, request, env, config, files, accepts, pool>>

\* await client.connect() settles
ConnectReply(c, raised) ==
  /\ call[c].pc = "connect"
  /\ LET r == call[c]
     IN call' = [call EXCEPT ![c] =
          IF ~raised THEN [r EXCEPT !.pc = "auth"]
          ELSE IF ConfigMissing(config) THEN Throw(r, "cannot_connect")
          ELSE LoginLoop(r)]
  /\ UNCHANGED <<server, request, env, config, files, accepts, pool>>

\* await client.isUserAuthorized() settles
AuthReply(c) ==
  /\ call[c].pc = "auth"
  /\ LET isAuthorized == call[c].token \in accepts[call[c].sid]
         r == call[c]
     IN IF ResumeReturns(isAuthorized)
          THEN /\ pool' = PoolWith(pool, r.sid, c)
               /\ call' = [call EXCEPT ![c] =
                             Return([r EXCEPT !.authorized = TRUE], c)]
          ELSE /\ call' = [call EXCEPT ![c] = LoginLoop(r)]
               /\ UNCHANGED pool
  /\ UNCHANGED <<server, request, env, config, files, accepts>>

\* a rejection of client.start other than the two the catch block retries
StartFails(c) ==
  /\ call[c].pc \in {"start", "code", "password"}
  /\ call' = [call EXCEPT ![c] = AfterOtherError(call[c])]
  /\ UNCHANGED <<server, request, env, config, files, accepts, pool>>

\* client.start sent the code and calls phoneCode(): input.text is pending.
\* The backend answers auth.sendCode only for application credentials it
\* issued: for the placeholder and dummy values client.start can only reject.
CodePrompt(c) ==
  /\ call[c].pc = "start"
  /\ RealCredentials(call[c].client)
  /\ call' = [call EXCEPT ![c] = [call[c] EXCEPT !.pc = "code", !.prompted = TRUE]]
  /\ UNCHANGED <<server, request, env, config, files, accepts, pool>>

\* the code was entered and the backend asks for the password:
\* client.start calls password(): input.text is pending
PasswordPrompt(c) ==
  /\ call[c].pc = "code"
  /\ call' = [call EXCEPT ![c] = [call[c] EXCEPT !.pc = "password"]]
  /\ UNCHANGED <<server, request, env, config, files, accepts, pool>>

\* client.start rejects with PHONE_CODE_INVALID
InvalidCode(c) ==
  /\ call[c].pc = "code"
  /\ call[c].badCodes < MaxInvalidCodes
  /\ LET r == [call[c] EXCEPT !.badCodes = call[c].badCodes + 1,
                              !.attempts = AfterInvalidCode(call[c].attempts)]
     IN call' = [call EXCEPT ![c] = LoginLoop(r)]
  /\ UNCHANGED <<server, request, env, config, files, accepts, pool>>

\* client.start rejects with PASSWORD_HASH_INVALID
InvalidPassword(c) ==
  /\ call[c].pc = "password"
  /\ LET r == [call[c] EXCEPT !.badPasswords = call[c].badPasswords + 1,
                              !.attempts = AfterInvalidPassword(call[c].attempts)]
     IN call' = [call EXCEPT ![c] = LoginLoop(r)]
  /\ UNCHANGED <<server, request, env, config, files, accepts, pool>>

\* client.start resolves: the backend has authorized the client's new
\* session; the record is written, the client registered, the call returns.
\* written: "ok", or writeFileSync throws leaving the file as it was
\* ("untouched") or opened and cut short ("truncated")
StartSucceeds(c, written) ==
  /\ call[c].pc \in {"code", "password"}
  /\ LET id == call[c].sid
         r == [call[c] EXCEPT !.authorized = TRUE, !.token = c]
     IN /\ accepts' = [accepts EXCEPT ![id] = accepts[id] \cup {c}]
        /\ pool' = PoolAfterLogin(pool, id, c, written)
        /\ IF written = "ok"
             THEN /\ files' = [files EXCEPT ![id] = SavedRecord(c)]
                  /\ call' = [call EXCEPT ![c] =
                                Return([r EXCEPT !.writes = r.writes + 1], c)]
             ELSE /\ files' = [files EXCEPT ![id] =
                                IF written = "truncated" THEN Garbage ELSE files[id]]
                  /\ call' = [call EXCEPT ![c] =
                                Throw([r EXCEPT !.writes =
                                         IF written = "truncated" THEN r.writes + 1
                                         ELSE r.writes], "write_error")]
  /\ UNCHANGED <<server, request, env, config>>

\* the backend ends every authorization of an account (the user terminates
\* the sessions from another device)
Revoke(id) ==
  /\ accepts[id] # {}
  /\ accepts' = [accepts EXCEPT ![id] = {}]
  /\ UNCHANGED <<server, request, env, config, files, pool, call>>

Next ==
  \/ \E c \in Calls, id \in SessionIds, forceNew \in BOOLEAN : GetClient(c, id, forceNew)
  \/ \E c \in Calls, raised \in BOOLEAN : ConnectReply(c, raised)
  \/ \E c \in Calls : AuthReply(c)
  \/ \E c \in Calls : StartFails(c)
  \/ \E c \in Calls : CodePrompt(c)
  \/ \E c \in Calls : PasswordPrompt(c)
  \/ \E c \in Calls : InvalidCode(c)
  \/ \E c \in Calls : InvalidPassword(c)
  \/ \E c \in Calls, written \in {"ok", "untouched", "truncated"} : StartSucceeds(c, written)
  \/ \E id \in SessionIds : Revoke(id)

Spec == Init /\ [][Next]_vars

\* a continuation of call c runs: the backend has answered or the operator
\* has typed
CallStep(c) ==
  \/ \E raised \in BOOLEAN : ConnectReply(c, raised)
  \/ AuthReply(c)
  \/ StartFails(c)
  \/ CodePrompt(c)
  \/ PasswordPrompt(c)
  \/ InvalidCode(c)
  \/ InvalidPassword(c)
  \/ \E written \in {"ok", "untouched", "truncated"} : StartSucceeds(c, written)

\* the backend answers every request and the operator every prompt
LiveSpec == Spec /\ \A c \in Calls : WF_vars(CallStep(c))

\* ------------------------------------------------- entry points, handlers
EntryPoints == {"mcp-server.js", "src/mcp-server.js", "src/index.js"}

\* the handlers a command can arrive at: the tool handlers of mcp-server.js
\* (stdio) and of src/mcp-server.js (stdio_tools), the /api routes of
\* src/index.js (rest), handleMcpRequest of src/mcp.js (mcp_js) and of
\* src/mcp/index.js (mcp_index)
Paths == {"stdio", "stdio_tools", "rest", "mcp_js", "mcp_index"}

PathsOf(entry) ==
  CASE entry = "mcp-server.js" -> {"stdio"}
    [] entry = "src/mcp-server.js" -> {"stdio_tools"}
    [] entry = "src/index.js" -> {"rest", "mcp_js", "mcp_index"}

Tools == {"getDialogs", "getMessages", "sendMessage", "executeMethod"}
\* properties every object literal inherits from Object.prototype
InheritedNames == {"constructor"}
\* a name that is no string and has no primitive value, as JSON can carry
\* it: { "toString": 1 }; using it as a property key or in a template
\* literal raises a TypeError
Unprintable == "{toString: 1}"
\* the command names a request is drawn from
Names == Tools \cup {"bogus", Unprintable} \cup InheritedNames

\* a field of the parameters: "absent", "bad" (present with a value of the
\* wrong type) or a value of the right type
FieldValues == {"absent", "bad", "ok"}
LimitValues == {"absent", "bad", "0", "5"}

\* body: "none" (no body), "nofc" (no function_call), "ok";
\* parameters: the parameters object is present
Requests ==
  [body : {"none", "nofc", "ok"}, name : Names, parameters : BOOLEAN,
   session : {"absent"} \cup SessionIds, chatId : FieldValues,
   message : FieldValues, method : FieldValues, limit : LimitValues]

\* the parameters the schema of a tool declares
Required(name) ==
  CASE name = "getDialogs" -> {"session"}
    [] name = "getMessages" -> {"session", "chatId"}
    [] name = "sendMessage" -> {"session", "chatId", "message"}
    [] name = "executeMethod" -> {"session", "method"}
    [] OTHER -> {}

Optional(name) ==
  IF name \in {"getDialogs", "getMessages"} THEN {"limit"} ELSE {}

Fields == {"session", "chatId", "message", "method", "limit"}

\* one representative per request: what a handler never looks at is absent
Canonical(req) ==
  /\ req.body # "ok" => req.name = "bogus" /\ ~req.parameters
  /\ \A f \in Fields :
       (~req.parameters \/ f \notin Required(req.name) \cup Optional(req.name))
       => req[f] = "absent"

Commands == {req \in Requests : Canonical(req)}

\* the SDK and the router hand a handler the calls of its own tool only
Arrives(path, req) ==
  /\ path \in {"stdio", "stdio_tools", "rest"}
     => req.body = "ok" /\ req.name \in Tools
  /\ path = "rest" => req.parameters

\* ------------------------------------------------------------ validation
\* a parameter is present with a value of its declared type
Typed(req, f) == req[f] \notin {"absent", "bad"}

\* the schemas of manifest.js, and the zod shapes the tool handlers are
\* registered with: required parameters typed, optional ones typed or absent
SchemaValid(req) ==
  /\ \A f \in Required(req.name) : Typed(req, f)
  /\ \A f \in Optional(req.name) : req[f] # "bad"

\* toolRegistry[name] is truthy: an own property or an inherited one
Registered(name) == name \in Tools \cup InheritedNames

\* compiledValidators[name](parameters || {}): the compiled schema of a
\* tool; for "constructor" it is Object, which returns its argument
AjvValidates(req) == IF req.name \in Tools THEN SchemaValid(req) ELSE TRUE

\* the guards of the /api routes: !session || !chatId || ...
RestValid(req) == \A f \in Required(req.name) : req[f] # "absent"

\* the first argument of the session operation
SessionArg(req) == IF req.session = "absent" THEN Undefined ELSE req.session

\* useDefaults of ajv, default(100) of zod
DefaultedLimit(l) == IF l = "absent" THEN "100" ELSE l
\* parameters.limit || 100
OrLimit(l) == IF l \in {"absent", "0"} THEN "100" ELSE l
\* parseInt(limit) || 100
ParsedLimit(l) == IF l \in {"absent", "0", "bad"} THEN "100" ELSE l

\* the limit argument of getDialogs / getMessages
LimitPassed(path, req) ==
  IF req.name \notin {"getDialogs", "getMessages"} THEN "none"
  ELSE CASE path = "mcp_js" -> OrLimit(req.limit)
         [] path = "rest" -> ParsedLimit(req.limit)
         [] OTHER -> DefaultedLimit(req.limit)

\* ---------------------------------------------------------------- handlers
\* What the synchronous part of a handler comes to: the kind of the response
\* it sends at once, "raise_<stage>" (a TypeError is raised at that stage) or
\* "invoke" (it goes on to the session operation).
\* handleMcpRequest of src/mcp.js: the name is logged in a template literal,
\* parameters.session is read from the parameters
McpJs(req) ==
  IF req.body # "ok" THEN "bad_request"
  ELSE IF req.name = Unprintable THEN "raise_read"
  ELSE IF req.name \notin Tools THEN "not_found"
  ELSE IF ~req.parameters THEN "raise_call"
  ELSE "invoke"

\* handleMcpRequest of src/mcp/index.js: the name is the key of
\* toolRegistry[name]; func is undefined for a name that is registered but
\* is no tool
McpIndex(req) ==
  IF req.body # "ok" THEN "bad_request"
  ELSE IF req.name = Unprintable THEN "raise_lookup"
  ELSE IF ~Registered(req.name) THEN "not_found"
  ELSE IF ~AjvValidates(req) THEN "invalid_params"
  ELSE IF req.name \notin Tools THEN "raise_call"
  ELSE "invoke"

\* a tool handler of the stdio servers, behind the zod check of the SDK
Stdio(req) == IF ~SchemaValid(req) THEN "invalid_params" ELSE "invoke"

\* a route of src/index.js
Rest(req) == IF ~RestValid(req) THEN "invalid_params" ELSE "invoke"

\* the handler runs a validator on the parameters
Validates(path, req) ==
  CASE path = "mcp_js" -> FALSE
    [] path = "mcp_index" -> req.body = "ok" /\ req.name # Unprintable
                             /\ Registered(req.name)
    [] OTHER -> TRUE

\* checkSessionExists(session) of tools.js and of mcp-server.js
checkSessionExists(f) == f.kind = "valid"

\* the handlers that call checkSessionExists before the session operation
ChecksSession(path) == path \in {"stdio", "stdio_tools", "mcp_index"}

Decide(path, req) ==
  LET d == CASE path = "mcp_js" -> McpJs(req)
             [] path = "mcp_index" -> McpIndex(req)
             [] path = "rest" -> Rest(req)
             [] OTHER -> Stdio(req)
  IN IF d = "invoke" /\ ChecksSession(path)
          /\ ~checkSessionExists(files[SessionArg(req)])
       THEN "no_session"
       ELSE d

\* the failures the functions of tools.js return as { error: true, message }
\* instead of raising them
ReturnedByTool(path, kind) ==
  /\ path \in {"stdio_tools", "mcp_index"}
  /\ kind \in {"no_session", "operation_failed"}

\* the response: isError is the failure mark of the envelope (isError: true,
\* or an error property with a 4xx/5xx status), payloadError an error object
\* inside content. src/mcp/index.js sends res.json({ content: result })
\* whatever the tool returned; src/mcp-server.js tests result.error.
Response(path, kind) ==
  LET wrapped == path = "mcp_index" /\ ReturnedByTool(path, kind)
  IN [kind |-> kind, isError |-> kind # "success" /\ ~wrapped,
      payloadError |-> wrapped]

NoResponse == [kind |-> "none", isError |-> FALSE, payloadError |-> FALSE]

\* the statement at this stage of the handler is inside its try block:
\* src/mcp/index.js reads the request and looks the tool up before its try
InTry(path, stage) == path = "mcp_index" => stage \notin {"read", "lookup"}

\* --------------------------------------------------------- command actions
\* a failure is raised at a stage of the handler: its catch block answers,
\* or nothing does
Raised(r, stage, kind) ==
  IF InTry(r.path, stage)
    THEN [r EXCEPT !.stage = "responded", !.response = Response(r.path, kind)]
    ELSE [r EXCEPT !.stage = "uncaught"]

\* the stage of the handler a TypeError is raised at
RaisedAt ==
  [d \in {"raise_read", "raise_lookup", "raise_call"} |->
     CASE d = "raise_read" -> "read"
       [] d = "raise_lookup" -> "lookup"
       [] d = "raise_call" -> "call"]

\* the session operation failed: the tool returns the failure, or the
\* operation raises it into the handler
OperationFailed(r) ==
  LET f == [r EXCEPT !.failed = TRUE]
  IN IF ReturnedByTool(r.path, "operation_failed")
       THEN [f EXCEPT !.stage = "responded",
                      !.response = Response(r.path, "operation_failed")]
       ELSE Raised(f, "await", "operation_failed")

\* a command arrives: the handler up to its response or up to the first
\* await inside getClient
Receive(path, req, c) ==
  /\ server.phase = "ready" /\ request.stage = "none"
  /\ path \in PathsOf(server.entry) /\ Arrives(path, req)
  /\ call[c].pc = "idle"
  /\ \A d \in Calls : d < c => call[d].pc # "idle"
  /\ LET d == Decide(path, req)
         r == [request EXCEPT !.path = path, !.input = req,
                              !.validated = Validates(path, req)]
     IN IF d = "invoke"
          THEN /\ request' = [r EXCEPT !.stage = "operation", !.slot = c,
                                       !.limit = LimitPassed(path, req)]
               /\ call' = [call EXCEPT ![c] =
                             GetClientEntry(c, SessionArg(req), FALSE)]
          ELSE /\ request' =
                    IF d \in DOMAIN RaisedAt
                      THEN Raised(r, RaisedAt[d], "execution_error")
                    ELSE [r EXCEPT !.stage = "responded",
                                   !.response = Response(path, d)]
               /\ UNCHANGED call
  /\ UNCHANGED <<server, env, config, files, accepts, pool>>

\* await getClient(sessionId) settles in the session operation
Acquired ==
  /\ request.stage = "operation"
  /\ call[request.slot].pc = "done"
  /\ request' = IF call[request.slot].error # "none"
                  THEN OperationFailed(request)
                  ELSE [request EXCEPT !.stage = "remote", !.remote = TRUE]
  /\ UNCHANGED <<server, env, config, files, accepts, pool, call>>

\* the remote call of the session operation settles
RemoteReply(ok) ==
  /\ request.stage = "remote"
  /\ request' = IF ok
                  THEN [request EXCEPT !.stage = "responded",
                                       !.response = Response(request.path, "success")]
                  ELSE OperationFailed(request)
  /\ UNCHANGED <<server, env, config, files, accepts, pool, call>>

\* the steps of the getClient calls in flight
GetClientStep ==
  \/ \E c \in Calls, raised \in BOOLEAN : ConnectReply(c, raised)
  \/ \E c \in Calls : AuthReply(c)
  \/ \E c \in Calls : StartFails(c)
  \/ \E c \in Calls : CodePrompt(c)
  \/ \E c \in Calls : PasswordPrompt(c)
  \/ \E c \in Calls : InvalidCode(c)
  \/ \E c \in Calls : InvalidPassword(c)
  \/ \E c \in Calls, written \in {"ok", "untouched", "truncated"} : StartSucceeds(c, written)
  \/ \E id \in StoreKeys : Revoke(id)

DispatchInit ==
  /\ InitStore
  /\ server \in {Serving(e) : e \in EntryPoints}
  /\ request = NoRequest

DispatchNext ==
  \/ /\ request.stage = "none"
     /\ \E path \in PathsOf(server.entry), req \in Commands, c \in Calls :
          Receive(path, req, c)
  \/ Acquired
  \/ \E ok \in BOOLEAN : RemoteReply(ok)
  \/ GetClientStep

DispatchSpec == DispatchInit /\ [][DispatchNext]_vars

\* ------------------------------------------------------------------ startup
\* the order in which readdirSync lists the record files
DirOrder == <<"+1000", "+2000">>

\* readdirSync(sessionsDir).filter(file => file.endsWith('.json'))
sessionFiles(fs) == SelectSeq(DirOrder, LAMBDA s : fs[s].kind # "absent")

\* the body of the scan loop: JSON.parse did not throw and
\* sessionData.session is truthy
ScanAcceptsParsed(f) == f.kind \in {"valid", "nosession"}
ScanAccepts(f) == f.kind = "valid"

\* for (const file of sessionFiles) { try { ... validSessions.push } catch }
RECURSIVE ScanFrom(_, _, _)
ScanFrom(names, fs, validSessions) ==
  IF names = <<>> THEN validSessions
  ELSE ScanFrom(Tail(names), fs,
                IF ScanAccepts(fs[Head(names)])
                  THEN Append(validSessions, Head(names))
                  ELSE validSessions)

\* the entry points whose startServer awaits checkSessionsOnStartup
RunsStartupCheck(entry) == entry \in {"mcp-server.js", "src/mcp-server.js"}

Booting(entry) ==
  [entry |-> entry, phase |-> "boot", validSessions |-> <<>>,
   reconciled |-> FALSE]

\* startServer: checkSessionsOnStartup up to its first await
StartServer(c) ==
  /\ server.phase = "boot" /\ RunsStartupCheck(server.entry)
  /\ call[c].pc = "idle"
  /\ \A d \in Calls : d < c => call[d].pc # "idle"
  /\ LET validSessions == ScanFrom(sessionFiles(files), files, <<>>)
     IN IF validSessions # <<>>
          THEN /\ call' = [call EXCEPT ![c] =
                             GetClientEntry(c, validSessions[1], FALSE)]
               /\ server' = [server EXCEPT !.phase = "testing",
                                           !.validSessions = validSessions]
          ELSE /\ server' = [server EXCEPT !.phase =
                               IF ConfigMissing(config) THEN "checked"
                               ELSE "ask_create"]
               /\ UNCHANGED call
  /\ UNCHANGED <<request, env, config, files, accepts, pool>>

\* src/index.js: app.listen when the module is loaded
Listen ==
  /\ server.phase = "boot" /\ ~RunsStartupCheck(server.entry)
  /\ server' = [server EXCEPT !.phase = "ready"]
  /\ UNCHANGED <<request, env, config, files, accepts, pool, call>>

\* the operator answers 'Do you want to create a new session? (yes/no)'
AnswerCreate(yes) ==
  /\ server.phase = "ask_create"
  /\ server' = [server EXCEPT !.phase = IF yes THEN "ask_phone" ELSE "checked"]
  /\ UNCHANGED <<request, env, config, files, accepts, pool, call>>

\* the operator answers 'Enter phone number'
AnswerPhone(phoneNumber, c) ==
  /\ server.phase = "ask_phone"
  /\ call[c].pc = "idle"
  /\ \A d \in Calls : d < c => call[d].pc # "idle"
  /\ IF phoneNumber = ""
       THEN /\ server' = [server EXCEPT !.phase = "checked"]
            /\ UNCHANGED call
       ELSE /\ server' = [server EXCEPT !.phase = "creating"]
            /\ call' = [call EXCEPT ![c] = GetClientEntry(c, phoneNumber, FALSE)]
  /\ UNCHANGED <<request, env, config, files, accepts, pool>>

\* await getClient(...) settles in checkSessionsOnStartup: returned or
\* caught, the check returns
CheckSettles ==
  /\ server.phase \in {"testing", "creating"}
  /\ \E c \in Calls : call[c].pc = "done"
  /\ server' = [server EXCEPT !.phase = "checked", !.validSessions = <<>>]
  /\ UNCHANGED <<request, env, config, files, accepts, pool, call>>

\* await server.connect(transport)
Connect ==
  /\ server.phase = "checked"
  /\ server' = [server EXCEPT !.phase = "ready", !.reconciled = TRUE]
  /\ UNCHANGED <<request, env, config, files, accepts, pool, call>>

StartupInit ==
  /\ InitStore
  /\ server \in {Booting(e) : e \in EntryPoints}
  /\ request = NoRequest

StartupNext ==
  \/ \E c \in Calls : StartServer(c)
  \/ Listen
  \/ \E yes \in BOOLEAN : AnswerCreate(yes)
  \/ \E phoneNumber \in SessionIds \cup {""}, c \in Calls : AnswerPhone(phoneNumber, c)
  \/ CheckSettles
  \/ Connect
  \/ GetClientStep

StartupSpec == StartupInit /\ [][StartupNext]_vars

\* a request of call c to the backend settles: connect, isUserAuthorized,
\* and client.start up to the code it sends or the rejection it gets
BackendStep(c) ==
  \/ \E raised \in BOOLEAN : ConnectReply(c, raised)
  \/ AuthReply(c)
  \/ call[c].pc = "start" /\ StartFails(c)
  \/ CodePrompt(c)

\* the backend answers every request and the process runs its
\* continuations; nothing is assumed about the operator
StartupLive ==
  /\ StartupSpec
  /\ \A c \in Calls : WF_vars(BackendStep(c))
  /\ WF_vars(\E c \in Calls : StartServer(c))
  /\ WF_vars(CheckSettles)
  /\ WF_vars(Connect)

\* ------------------------------------------------- session identifiers
\* The names getClient, checkSessionExists and the startup scan derive from a
\* session identifier, with the identifier as the character string it is.
\* In this specification files is the set of file names in the sessions
\* directory, pool the set of keys of clientSessions, accepts the set of
\* identifiers whose login has completed, server the telegram.js module that
\* is loaded with the result of the last scan, and request the last check.
Chars == {"+", "1"}

\* the longest identifier and the most logins considered
MaxIdLen == 2
MaxLogins == 1

Identifiers == UNION {[1..n -> Chars] : n \in 1..MaxIdLen}

\* the two telegram.js in the source: the one with checkSessionsOnStartup
\* and the one of part_005
TelegramModules == {"src/telegram.js", "part_005"}

\* the characters /[^a-zA-Z0-9]/ does not match
Alphanumeric(ch) == ch = "1"

\* const cleanSessionId = sessionId.replace(/[^a-zA-Z0-9]/g, '')
cleanSessionId(sessionId) == SelectSeq(sessionId, Alphanumeric)

\* the key of clientSessions.has / get / set in getClient of module m
PoolKey(m, sessionId) ==
  IF m = "part_005" THEN cleanSessionId(sessionId) ELSE sessionId

\* the file getClient of module m reads and writes:
\* `${cleanSessionId}.session` or `${sessionId}.json`
sessionFile(m, sessionId) ==
  IF m = "part_005"
    THEN [name |-> cleanSessionId(sessionId), ext |-> ".session"]
    ELSE [name |-> sessionId, ext |-> ".json"]

\* checkSessionExists: path.join(config.sessionPath, `${session}.json`)
CheckedFile(session) == [name |-> session, ext |-> ".json"]

\* the scan: filter(file => file.endsWith('.json')) and
\* path.basename(file, '.json')
ScannedIds(dir) == {f.name : f \in {g \in dir : g.ext = ".json"}}

NoCheck == [session |-> <<>>, accepted |-> FALSE, found |-> FALSE]

\* a sessions directory that is empty or holds the .json record an earlier
\* run has left
NamingInit ==
  /\ server \in [telegram : TelegramModules, scanned : {FALSE},
                  validSessions : {{}}]
  /\ files \in {{}} \cup {{CheckedFile(id)} : id \in Identifiers}
  /\ pool = {}
  /\ accepts = {}
  /\ request = NoCheck
  /\ env = [apiId |-> TRUE, apiHash |-> TRUE]
  /\ config = PlainConfig(env)
  /\ call = [c \in Calls |-> IdleCall]

\* getClient(sessionId) of the loaded module completes a login: the record
\* is written and the client registered
Login(sessionId) ==
  /\ Cardinality(accepts) < MaxLogins
  /\ files' = files \cup {sessionFile(server.telegram, sessionId)}
  /\ pool' = pool \cup {PoolKey(server.telegram, sessionId)}
  /\ accepts' = accepts \cup {sessionId}
  /\ UNCHANGED <<server, request, env, config, call>>

\* a tool is called with session: checkSessionExists(session), and what the
\* getClient that follows finds for it
Check(session) ==
  /\ request' = [session |-> session,
                 accepted |-> CheckedFile(session) \in files,
                 found |-> \/ PoolKey(server.telegram, session) \in pool
                           \/ sessionFile(server.telegram, session) \in files]
  /\ UNCHANGED <<server, env, config, files, accepts, pool, call>>

\* the process is started again: clientSessions is empty and the startup
\* check scans the directory
Restart ==
  /\ pool' = {}
  /\ server' = [server EXCEPT !.scanned = TRUE,
                              !.validSessions = ScannedIds(files)]
  /\ request' = NoCheck
  /\ UNCHANGED <<env, config, files, accepts, call>>

NamingNext ==
  \/ \E sessionId \in Identifiers : Login(sessionId)
  \/ \E session \in Identifiers : Check(session)
  \/ Restart

NamingSpec == NamingInit /\ [][NamingNext]_vars

\* ------------------------------------------------------- serialization
\* JavaScript values as serializeTelegramObject of part_005 sees them:
\* primitives, null, undefined, functions, Date objects, arrays and plain
\* objects. In this specification request holds the argument and the
\* returned value of one invocation; the other variables are not used.
Primitive(type, v) == [t |-> type, v |-> v]
Null == [t |-> "null"]
NoValue == [t |-> "undefined"]
Function == [t |-> "function"]
Date == [t |-> "Date"]
EmptyObject == [t |-> "object"]
Array(item) == [t |-> "array", item |-> item]
Object(key, val) == [t |-> "object", key |-> key, val |-> val]

\* the depth to which arrays and objects are nested
MaxDepth == 2

Primitives ==
  {Primitive("number", n) : n \in {"0", "1"}}
    \cup {Primitive("boolean", b) : b \in {"false", "true"}}
    \cup {Primitive("string", str) : str \in {"", "a"}}

Atoms == Primitives \cup {Null, NoValue, Function, Date, EmptyObject}

\* property names, one of them with a leading underscore
Keys == {"k", "_k"}

RECURSIVE ValuesOf(_)
ValuesOf(depth) ==
  IF depth = 0 THEN Atoms
  ELSE LET inner == ValuesOf(depth - 1)
       IN Atoms \cup {Array(v) : v \in inner}
                \cup {Object(k, v) : k \in Keys, v \in inner}

\* !obj
Falsy(obj) ==
  \/ obj \in {Null, NoValue}
  \/ obj \in {Primitive("number", "0"), Primitive("boolean", "false"),
               Primitive("string", "")}

\* function serializeTelegramObject(obj)
RECURSIVE serializeTelegramObject(_)
serializeTelegramObject(obj) ==
  IF Falsy(obj) THEN Null
  ELSE IF obj.t = "array" THEN Array(serializeTelegramObject(obj.item))
  ELSE IF obj.t \notin {"object", "Date"} THEN obj
  ELSE IF obj = Date THEN Primitive("string", "toISOString")
  ELSE IF obj = EmptyObject THEN EmptyObject
  ELSE IF obj.val = Function THEN EmptyObject
  ELSE IF obj.key = "_k" THEN EmptyObject
  ELSE Object(obj.key, serializeTelegramObject(obj.val))

\* a value is about to be passed to serializeTelegramObject
SerialInit ==
  /\ request \in [stage : {"call"}, obj : ValuesOf(MaxDepth), result : {Null}]
  /\ server = Serving("src/index.js")
  /\ env = [apiId |-> TRUE, apiHash |-> TRUE]
  /\ config = PlainConfig(env)
  /\ files = [s \in StoreKeys |-> Absent]
  /\ accepts = [s \in StoreKeys |-> {}]
  /\ pool = [s \in StoreKeys |-> NoHandle]
  /\ call = [c \in Calls |-> IdleCall]

\* return serializeTelegramObject(result)
Serialize ==
  /\ request.stage = "call"
  /\ request' = [request EXCEPT !.stage = "returned",
                                !.result = serializeTelegramObject(request.obj)]
  /\ UNCHANGED <<server, env, config, files, accepts, pool, call>>

SerialNext == Serialize

SerialSpec == SerialInit /\ [][SerialNext]_vars

\* ------------------------------------------------------------- properties
\* API_ID and API_HASH are both set in the environment
CredentialsConfigured == env.apiId /\ env.apiHash

\* the step in which call c is entered
Enters(c) == call[c].pc = "idle" /\ call'[c].pc # "idle"

\* C1: two concurrent getClient calls for one session identifier, both
\* entered while the pool has no entry for it, run one authentication or
\* resumption sequence between them and end with the same handle: no two
\* such calls are in flight together, and no two of them each return the
\* client they constructed themselves.
C1_OneSequencePerSession ==
  \A c, d \in Calls :
    (c # d /\ call[c].sid = call[d].sid
       /\ ~call[c].bypassed /\ ~call[d].bypassed)
    => /\ ~(InFlight(c) /\ InFlight(d))
       /\ ~(call[c].result = c /\ call[d].result = d)

\* C2: a call that returns on a pool hit returns a handle that reports
\* itself authenticated at that moment.
C2_PoolHitVerified ==
  [][\A c \in Calls :
       (Enters(c) /\ call'[c].pc = "done" /\ call'[c].result # NoHandle)
       => HandleAuthenticated(call'[c].result)]_vars

\* C3: a call entered on a record with a non-empty token goes to the
\* resumption (or returns the pooled handle) without client.start and
\* without a prompt, and when isUserAuthorized finds the token accepted the
\* call returns its client, registered in the pool, still without
\* client.start and without a prompt.
C3_ResumeWithoutPrompt ==
  [][\A c \in Calls :
       /\ (Enters(c) /\ files[call'[c].sid].kind = "valid")
          => /\ ~call'[c].started /\ ~call'[c].prompted
             /\ \/ call'[c].pc = "connect"
                \/ call'[c].pc = "done" /\ call'[c].result = pool[call'[c].sid]
                   /\ call'[c].result # NoHandle
       /\ (call[c].pc = "connect" /\ call'[c].pc = "auth")
          => ~call'[c].started /\ ~call'[c].prompted
       /\ (call[c].pc = "auth" /\ call'[c] # call[c]
             /\ call[c].token \in accepts[call[c].sid])
          => /\ call'[c].pc = "done" /\ call'[c].error = "none"
             /\ call'[c].result = c /\ pool'[call[c].sid] = c
             /\ ~call'[c].started /\ ~call'[c].prompted
             /\ files' = files]_vars

\* a call has returned by resumption while no credentials were configured
C3_Witness ==
  \E c \in Calls :
    /\ call[c].pc = "done" /\ call[c].result = c /\ call[c].existing
    /\ ~call[c].started /\ ~call[c].prompted
    /\ ConfigMissing(config) /\ ~CredentialsConfigured

\* C4: a call for an identifier with no record, entered when the
\* environment configures no application id/secret pair, ends at once with
\* the missing-credentials error, writes nothing, adds no pool entry and
\* starts no login.
C4_MissingCredentials ==
  [][\A c \in Calls :
       (Enters(c) /\ files[call'[c].sid].kind = "absent"
          /\ pool[call'[c].sid] = NoHandle /\ ~CredentialsConfigured)
       => /\ call'[c].pc = "done" /\ call'[c].error = "missing_credentials"
          /\ ~call'[c].started /\ ~call'[c].prompted
          /\ files' = files /\ pool' = pool]_vars

\* C5: a call never sees more than 3 invalid passwords, and once it has
\* seen 3 it has ended with the exhausted error, has written no record and
\* has registered no handle.
C5_ThreePasswords ==
  \A c \in Calls :
    /\ call[c].badPasswords <= maxAttempts
    /\ call[c].badPasswords = maxAttempts
       => /\ call[c].pc = "done" /\ call[c].error = "exhausted"
          /\ call[c].result = NoHandle /\ call[c].writes = 0
          /\ pool[call[c].sid] # c

C5_Witness ==
  \E c \in Calls :
    /\ call[c].badPasswords = maxAttempts /\ call[c].error = "exhausted"
    /\ call[c].prompted

\* C6: while client.start runs, the attempt counter is the number of
\* invalid passwords so far plus one, whatever the number of invalid codes;
\* a call ends exhausted only after 3 invalid passwords.
C6_CodesAreFree ==
  \A c \in Calls :
    /\ call[c].pc \in {"start", "code", "password"}
       => call[c].attempts = call[c].badPasswords + 1
    /\ call[c].error = "exhausted" => call[c].badPasswords = maxAttempts

\* an invalid code after two invalid passwords: the third password is asked
C6_Witness ==
  \E c \in Calls :
    /\ call[c].pc = "password" /\ call[c].badCodes = MaxInvalidCodes
    /\ call[c].badPasswords = maxAttempts - 1

\* the step in which call c returns the client it constructed
ReturnsOwnClient(c) ==
  call[c].pc # "done" /\ call'[c].pc = "done" /\ call'[c].result = c

\* C7 as stated: every call that ends authenticated has written the record
\* once, has registered its handle and returns it.
C7_AlwaysPersists ==
  [][\A c \in Calls :
       ReturnsOwnClient(c)
       => /\ call'[c].writes = 1
          /\ pool'[call[c].sid] = c]_vars

\* C7 amended: a call that ends authenticated after client.start has
\* written the record with its token once, one that ends authenticated by
\* resumption has written nothing; both have registered the handle they
\* return.
C7_PersistsAfterLogin ==
  [][\A c \in Calls :
       ReturnsOwnClient(c)
       => /\ pool'[call[c].sid] = c
          /\ call'[c].error = "none"
          /\ IF call'[c].started
               THEN /\ call'[c].writes = 1
                    /\ files'[call[c].sid] = Record(call'[c].token)
               ELSE call'[c].writes = 0 /\ files' = files]_vars

\* one call has returned after a login, another by resumption
C7_Witness ==
  \E c, d \in Calls :
    /\ call[c].result = c /\ call[c].started /\ call[c].writes = 1
    /\ files[call[c].sid] = Record(c) /\ pool[call[c].sid] = c
    /\ call[d].result = d /\ ~call[d].started /\ call[d].writes = 0

\* C8: a call writes only after its client.start completed, and a call
\* that ended in failure has written nothing.
C8_WriteOnlyOnSuccess ==
  \A c \in Calls :
    /\ call[c].writes > 0 => call[c].started /\ call[c].authorized
    /\ (call[c].pc = "done" /\ call[c].error # "none") => call[c].writes = 0

\* C9: client.start is invoked only on a client constructed with the
\* configured application id/secret.
C9_NoPlaceholderLogin ==
  \A c \in Calls : call[c].started => RealCredentials(call[c].client)

\* C10: a call that tried a resumption invokes client.start only when a
\* credential pair is configured; with none configured it prompts nobody
\* and a failure is the cannot-connect error.
C10_LoginNeedsCredentials ==
  \A c \in Calls :
    (call[c].existing /\ ~CredentialsConfigured)
    => /\ ~call[c].started /\ ~call[c].prompted
       /\ (call[c].pc = "done" /\ call[c].result = NoHandle)
          => call[c].error = "cannot_connect"

\* a command for one of the four tools has been received
ForTool == request.stage # "none" /\ request.input.body = "ok"
           /\ request.input.name \in Tools

\* C11: on every dispatch path a command for a tool whose parameters lack
\* a required field or hold a wrongly typed one is answered with the
\* invalid-parameters failure, and neither getClient nor a remote operation
\* has been invoked for it.
C11_InvalidParametersRejected ==
  (ForTool /\ ~SchemaValid(request.input))
  => /\ request.stage = "responded"
     /\ request.response.kind = "invalid_params"
     /\ request.slot = NoHandle /\ ~request.remote

\* C12: a command whose name is none of the four tools is answered with
\* the not-found failure; no validator has run on it, no getClient and no
\* remote operation has been invoked.
C12_UnknownNameNotFound ==
  (request.stage # "none" /\ request.input.body = "ok"
     /\ request.input.name \notin Tools)
  => /\ request.stage = "responded"
     /\ request.response.kind = "not_found"
     /\ ~request.validated
     /\ request.slot = NoHandle /\ ~request.remote

\* C13: no dispatch ends with an exception nobody caught: every request,
\* also one without body, function_call or parameters, every failed
\* getClient and every failed remote operation is answered with a
\* response.
C13_NothingUncaught ==
  /\ request.stage # "uncaught"
  /\ (request.stage # "none"
        /\ (request.input.body # "ok" \/ ~request.input.parameters))
     => request.stage = "responded"
  /\ request.failed => request.stage = "responded"

\* C14: when getClient or the remote operation of a command failed, the
\* response carries the failure mark.
C14_FailureIsMarked ==
  (request.stage = "responded" /\ request.failed) => request.response.isError

\* C15: a well-formed command that names a session with no record, received
\* while the credentials are configured, starts the login for that session
\* (client.start is invoked, the code will be asked) instead of being
\* rejected.
C15_FirstUseStartsLogin ==
  [][(/\ request.stage = "none" /\ request'.stage # "none"
      /\ request'.input.body = "ok" /\ request'.input.name \in Tools
      /\ SchemaValid(request'.input)
      /\ files[SessionArg(request'.input)].kind = "absent"
      /\ CredentialsConfigured)
     => /\ request'.stage = "operation"
        /\ call'[request'.slot].started]_vars

\* C16: the record a successful login writes holds the token of the
\* login, and a call that reads the record of its identifier resumes with
\* the token the record holds; a call for an identifier without record
\* finds no existing session.
C16_RecordRoundTrip ==
  [][\A c \in Calls :
       /\ (call[c].pc # "done" /\ call'[c].pc = "done" /\ call'[c].writes = 1
             /\ call'[c].error = "none")
          => /\ files'[call[c].sid].kind = "valid"
             /\ files'[call[c].sid].token = call'[c].token
             /\ ExistingSession(files'[call[c].sid])
       /\ (Enters(c) /\ (pool[call'[c].sid] = NoHandle \/ call'[c].bypassed))
          => /\ files[call'[c].sid].kind = "valid"
                => /\ call'[c].existing /\ call'[c].pc = "connect"
                   /\ call'[c].token = files[call'[c].sid].token
             /\ files[call'[c].sid].kind = "absent"
                => ~call'[c].existing /\ call'[c].pc # "connect"]_vars

\* a call resumes with the token another call wrote after its login
C16_Witness ==
  \E c, d \in Calls :
    /\ c # d /\ call[c].writes = 1 /\ call[c].result = c
    /\ call[d].sid = call[c].sid /\ files[call[c].sid] = Record(c)
    /\ call[d].existing /\ call[d].token = c /\ call[d].pc = "auth"

\* C19: no two login dialogs for different session identifiers wait for the
\* operator's code or password at the same time.
C19_OnePromptAtATime ==
  \A c, d \in Calls :
    (c # d /\ call[c].sid # call[d].sid)
    => ~(call[c].pc \in {"code", "password"} /\ call[d].pc \in {"code", "password"})

\* C20: a step of a call for one identifier leaves a suspended call for
\* another identifier, its pool entry and its record as they are; what the
\* entered call does depends on its own pool entry and record only: with a
\* pool entry it returns it at once, with a record it goes to connect; and
\* while the other call is suspended its connect and its authorization
\* check can settle.
C20_IdentifiersIndependent ==
  /\ [][\A c, d \in Calls :
          /\ (c # d /\ call'[d] # call[d] /\ InFlight(c)
                /\ call[c].sid # call'[d].sid)
             => /\ call'[c] = call[c]
                /\ pool'[call[c].sid] = pool[call[c].sid]
                /\ files'[call[c].sid] = files[call[c].sid]
          /\ Enters(d)
             => /\ (pool[call'[d].sid] # NoHandle /\ ~call'[d].bypassed)
                   => /\ call'[d].pc = "done"
                      /\ call'[d].result = pool[call'[d].sid]
                /\ ((pool[call'[d].sid] = NoHandle \/ call'[d].bypassed)
                      /\ files[call'[d].sid].kind = "valid")
                   => call'[d].pc = "connect"]_vars
  /\ [](\A c, d \in Calls :
          (c # d /\ InFlight(c) /\ call[c].sid # call[d].sid)
          => /\ call[d].pc = "connect" => ENABLED ConnectReply(d, FALSE)
             /\ call[d].pc = "auth" => ENABLED AuthReply(d))

\* a call for one identifier waits for the operator's code; a call for the
\* other identifier, entered after it, has returned by resumption
C20_Witness ==
  /\ call[1].pc = "code" /\ call[1].starts = 1 /\ call[1].badCodes = 0
  /\ call[1].badPasswords = 0
  /\ call[2].pc = "done" /\ call[2].result = 2 /\ call[2].existing
  /\ call[2].sid # call[1].sid

\* C17: the scan of checkSessionsOnStartup lists exactly the identifiers
\* whose file parses and has a non-empty session field, each once, whatever
\* the other files hold: a file without session field or with unparsable
\* content is left out and the scan goes on.
C17_ScanListsValidRecords ==
  [][(server.phase = "boot" /\ server'.phase \notin {"boot", "ready"})
     => LET listed == IF server'.phase = "testing"
                        THEN server'.validSessions ELSE <<>>
        IN /\ {listed[i] : i \in DOMAIN listed}
                = {s \in SessionIds : files[s].kind = "valid"}
           /\ Len(listed) = Cardinality({listed[i] : i \in DOMAIN listed})]_vars

\* the first file is unparsable, the second one was listed
C17_Witness ==
  /\ server.phase = "testing" /\ server.validSessions = <<"+2000">>
  /\ files["+1000"].kind = "garbage"

\* C18: on every entry point the transport is connected or the listener
\* opened only after checkSessionsOnStartup has returned.
C18_ReadyAfterStartupCheck ==
  server.phase = "ready" => server.reconciled

\* C21: a save is atomic and overwrites: whenever the file of an identifier
\* changes, what a load finds afterwards is the complete new record, never
\* a partially written one.
C21_SaveIsAtomic ==
  [][\A id \in StoreKeys :
       files'[id] # files[id]
       => /\ files'[id].kind = "valid"
          /\ \E c \in Calls : files'[id] = Record(c) /\ call'[c].token = c]_vars

\* C22: the limit handed to getDialogs / getMessages is 100 when the
\* request has no limit and the supplied integer when it has one.
C22_LimitPassedOn ==
  (request.slot # NoHandle /\ request.input.name \in {"getDialogs", "getMessages"}
     /\ request.input.limit # "bad")
  => request.limit = IF request.input.limit = "absent" THEN "100"
                     ELSE request.input.limit

\* the step in which call c is entered and reads the record of its identifier
ReadsRecord(c) ==
  Enters(c) /\ (pool[call'[c].sid] = NoHandle \/ call'[c].bypassed)

\* C23: a call that finds an unparsable record or one without session
\* field treats the identifier as new: no connect with that record, no
\* parse error; it ends with the missing-credentials error when no
\* credentials are configured and goes to the login when they are.
C23_InvalidRecordNotResumed ==
  [][\A c \in Calls :
       (ReadsRecord(c) /\ files[call'[c].sid].kind \in {"garbage", "nosession"})
       => /\ ~call'[c].existing /\ call'[c].pc # "connect"
          /\ IF CredentialsConfigured
               THEN call'[c].pc = "start" /\ call'[c].started
               ELSE /\ call'[c].pc = "done" /\ ~call'[c].started
                    /\ call'[c].error = "missing_credentials"]_vars

\* the step in which the try block of the login loop of call c raises an
\* error that is neither an invalid password nor an invalid code: a rejection
\* of client.start, or a throw of what follows it in the block
OtherError(c) ==
  /\ call[c].pc \in {"start", "code", "password"}
  /\ call'[c] # call[c]
  /\ call'[c].pc \notin {"code", "password"}
  /\ call'[c].badPasswords = call[c].badPasswords
  /\ call'[c].pc = "start" => call'[c].badCodes = call[c].badCodes
  /\ call'[c].result = NoHandle

\* C24: an error of the login other than an invalid password or code ends
\* the call at once with that error: client.start is not invoked again,
\* the record and the pool stay as they are and no handle is returned; a
\* call that ended with any error takes no further step.
C24_OtherErrorAborts ==
  [][\A c \in Calls :
       /\ OtherError(c)
          => /\ call'[c].pc = "done"
             /\ call'[c].error \in {"login_error", "write_error"}
             /\ call'[c].writes = 0
             /\ files' = files /\ pool' = pool
       /\ (call[c].pc = "done" /\ call[c].error # "none")
          => call'[c] = call[c]]_vars

\* C25: the pool changes only in the step in which a call returns the
\* client it registers, and the step in which a call ends in failure
\* leaves the pool as it is.
C25_NoHalfRegisteredHandle ==
  [][/\ \A id \in StoreKeys :
          pool'[id] # pool[id]
          => \E c \in Calls :
               /\ pool'[id] = c /\ call[c].pc # "done" /\ call'[c].pc = "done"
               /\ call'[c].result = c /\ call'[c].error = "none"
               /\ call'[c].sid = id
     /\ \A c \in Calls :
          (call[c].pc # "done" /\ call'[c].pc = "done" /\ call'[c].error # "none")
          => pool' = pool]_vars

\* every kind of failure has happened next to an empty pool entry
C25_Witness ==
  \E c \in Calls :
    /\ call[c].error = "write_error" /\ call[c].authorized
    /\ pool[call[c].sid] = NoHandle
    /\ \E d \in Calls : d # c /\ call[d].error = "exhausted"
                        /\ pool[call[d].sid] = NoHandle

\* C30: an identifier that has a pool entry has one in every later state.
C30_PoolMonotone ==
  [][\A id \in StoreKeys : pool[id] # NoHandle => pool'[id] # NoHandle]_vars

\* both identifiers are registered; the authorization of one was revoked
C30_Witness ==
  /\ \A id \in SessionIds : pool[id] # NoHandle
  /\ \E id \in SessionIds : accepts[id] = {}

\* C26: with finitely many invalid codes every call ends, by returning a
\* handle or by failing, and a call has invoked client.start at most 3
\* times plus once per invalid code.
C26_LoginTerminates ==
  /\ [](\A c \in Calls : call[c].starts <= maxAttempts + call[c].badCodes)
  /\ \A c \in Calls : InFlight(c) ~> call[c].pc = "done"

\* the invalid codes are used up and client.start runs for the last time
C26_Witness ==
  \E c \in Calls :
    /\ call[c].badCodes = MaxInvalidCodes
    /\ call[c].starts = maxAttempts + MaxInvalidCodes
    /\ call[c].pc = "password"


C28_OfferNeedsCredentials ==
  /\ [](server.phase \in {"ask_create", "ask_phone", "creating"}
          => CredentialsConfigured)
  /\ [][
         /\ \A c \in Calls :
            (Enters(c) /\ server'.phase # "testing")
            => /\ server.phase = "ask_phone" /\ server'.phase = "creating"
               /\ call'[c].sid \in SessionIds
         /\ (server.phase = "ask_create" /\ server'.phase # "ask_create")
            => server'.phase \in {"ask_phone", "checked"}
         /\ (server.phase \in {"boot", "ask_create", "ask_phone"}
              /\ server'.phase = "checked")
            => /\ \A c \in Calls : call'[c].pc = "idle"
               /\ files' = files /\ pool' = pool
         /\ (server.phase = "creating" /\ server'.phase # "creating")
            => /\ server'.phase = "checked"
               /\ \E c \in Calls : call[c].pc = "done"
       ]_vars


\* C29: one rule for every identifier: the pool key getClient uses is the
\* identifier, the record of a completed login is the file
\* checkSessionExists inspects and a scan lists it under that identifier,
\* every identifier the startup scan has listed is one getClient finds a
\* record for, and an identifier checkSessionExists accepts is found by
\* getClient.
C29_OneCanonicalization ==
  /\ \A id \in accepts :
       /\ CheckedFile(id) \in files
       /\ sessionFile(server.telegram, id) = CheckedFile(id)
       /\ id \in ScannedIds(files)
       /\ PoolKey(server.telegram, id) = id
  /\ pool \subseteq accepts
  /\ \A id \in server.validSessions :
       sessionFile(server.telegram, id) \in files
  /\ request.accepted => request.found


\* C31: the record files change only in the step in which an interactive
\* login of getClient succeeds: the call was in client.start, ends without
\* error and returns its client. Every other step (pool hit, resumption,
\* failed login, checkSessionExists, validation, the startup scan) leaves
\* every file as it is.
C31_OnlyLoginWrites ==
  [][files' # files
     => \E c \in Calls :
          /\ call[c].pc \in {"code", "password"}
          /\ call'[c].pc = "done" /\ call'[c].error = "none"
          /\ call'[c].result = c /\ call'[c].authorized
          /\ files' = [files EXCEPT ![call[c].sid] = Record(c)]]_vars


\* call c, which did not skip a pool entry, has returned a handle
Returned(c) ==
  /\ call[c].pc = "done" /\ call[c].result # NoHandle /\ ~call[c].bypassed

\* C32: once a call without forceNew has returned a handle for an
\* identifier, a getClient without forceNew for that identifier entered in
\* any later state finds that handle in the pool; and a call entered on a
\* pool entry without forceNew returns it in the same step, with no client
\* constructed, no connect, no client.start and no prompt.
C32_HandleStable ==
  /\ [](\A c \in Calls :
          Returned(c)
          => /\ PoolHit(FALSE, pool, call[c].sid)
             /\ pool[call[c].sid] = call[c].result)
  /\ [][\A d \in Calls :
          (Enters(d) /\ pool[call'[d].sid] # NoHandle /\ ~call'[d].bypassed)
          => /\ call'[d].pc = "done" /\ call'[d].error = "none"
             /\ call'[d].result = pool[call'[d].sid]
             /\ call'[d].client = IdleCall.client
             /\ ~call'[d].started /\ ~call'[d].prompted
             /\ ~call'[d].existing]_vars


\* C33: every identifier with a pool entry has a record file holding a
\* token; an entry is made either by a call that loaded the identifier's
\* valid record, which is still there, or in the step whose write has put
\* the record of the registered client into the file.
C33_PoolEntryHasRecord ==
  /\ [](\A id \in StoreKeys : pool[id] # NoHandle => files[id].kind = "valid")
  /\ [][\A id \in StoreKeys :
          pool'[id] # pool[id]
          => \/ /\ call'[pool'[id]].existing
                /\ files[id].kind = "valid" /\ files'[id] = files[id]
             \/ /\ ~call'[pool'[id]].existing
                /\ files'[id] = Record(pool'[id])]_vars


\* the numbers, booleans and strings of obj are in result where they are in
\* obj: at the top, in the array's item, under the property that is kept
RECURSIVE PrimitivesKept(_, _)
PrimitivesKept(obj, result) ==
  IF obj \in Primitives THEN result = obj
  ELSE IF obj.t = "array"
    THEN result.t = "array" /\ PrimitivesKept(obj.item, result.item)
  ELSE IF obj.t = "object" /\ obj # EmptyObject /\ result # EmptyObject
    THEN /\ result.t = "object" /\ result.key = obj.key
         /\ PrimitivesKept(obj.val, result.val)
  ELSE TRUE

\* C34: serializeTelegramObject returns every number, boolean and string as
\* it is, 0, false and the empty string included, at the top level and
\* inside arrays and nested objects.
C34_PrimitivesUnchanged ==
  request.stage = "returned" => PrimitivesKept(request.obj, request.result)


\* C35: the attempt counter of a call is between 0 and maxAttempts in every
\* state, and at least 1 while client.start runs, so that the decrement
\* after an invalid code stays in that range; client.start is invoked only
\* by a call that has seen fewer than 3 invalid passwords.
C35_AttemptsInRange ==
  /\ [](\A c \in Calls :
          /\ call[c].attempts \in 0..maxAttempts
          /\ call[c].pc \in {"start", "code", "password"}
             => /\ call[c].attempts >= 1
                /\ AfterInvalidCode(call[c].attempts) \in 0..maxAttempts
                /\ call[c].badPasswords < maxAttempts)
  /\ [][\A c \in Calls :
          call'[c].starts > call[c].starts
          => /\ call'[c].starts = call[c].starts + 1
             /\ call'[c].pc = "start"
             /\ call'[c].badPasswords < maxAttempts
             /\ call'[c].attempts = call'[c].badPasswords + 1]_vars

\* the counter is at maxAttempts while the code is asked again after two
\* invalid passwords and an invalid code
C35_Witness ==
  \E c \in Calls :
    /\ call[c].pc = "code" /\ call[c].attempts = maxAttempts
    /\ call[c].badPasswords = maxAttempts - 1 /\ call[c].badCodes = 1
    /\ call[c].starts = maxAttempts + 1

====
